---- MODULE Spec2Model ----
(***************************************************************************)
(* A model of useDropzone (src/src/index.js): the hook's React state, its   *)
(* refs, the promises and timers its handlers leave behind, and one action  *)
(* per handler.  One step of the model is one handler (or one promise or    *)
(* timer continuation) run to completion on the UI thread, with the state   *)
(* updates it queued applied.                                               *)
(***************************************************************************)
EXTENDS Integers, Sequences, FiniteSets, TLC

VARIABLES
    props,              \* propsRef.current: the props of the last render
    lastFocusEvent,     \* history: the last focus or blur event at the root whose default
                        \* the user's handler did not prevent ("none" before the first)
    ieOrEdge,           \* what isIeOrEdge() answers in this browser
    state,              \* React state: draggedFiles, acceptedFiles, rejectedFiles, isDragActive, isFocused
    dragTargets,        \* dragTargetsRef.current
    isFileDialogActive, \* isFileDialogActiveRef.current
    inputHasFiles,      \* inputRef.current.files.length > 0
    phase,              \* "rendered" (refs attached, effect not run), "mounted", "unmounted"
    listeners,          \* the document/window listeners the effect has installed
    pending,            \* the unresolved getDataTransferItems promises, by event
    openTimers,         \* pending setTimeout(open, 0)
    cancelTimers,       \* pending 300 ms timers of onFileDialogCancel: how many, by whether
                        \* the onFileDialogCancel prop was given when each was set
    calls               \* the calls of the last step, in order: the continuation it
                        \* entered, if it is one, and the outward calls it made

vars == <<props, lastFocusEvent, ieOrEdge, state, dragTargets, isFileDialogActive, inputHasFiles,
          phase, listeners, pending, openTimers, cancelTimers, calls>>

----------------------------------------------------------------------------
(* Bounds *)

MaxFiles == 3       \* longest file list a drop resolves to
MaxDragged == 1     \* longest file list a drag-enter resolves to
MaxPending == 2     \* unresolved file-list promises at one time
MaxTimers == 1      \* pending timers of each kind at one time

----------------------------------------------------------------------------
(* Inputs *)

\* a prop that is not given (null or undefined): Null for accept, NoSize for the sizes
Null == "null"

NoSize == 0 - 1

Files ==
    { [name |-> "a.png", type |-> "image/png", size |-> 1],
      [name |-> "b.txt", type |-> "text/plain", size |-> 2],
      [name |-> "c.png", type |-> "image/png", size |-> 3] }

Range(s) == { s[k] : k \in 1..Len(s) }

\* the lists of distinct files, up to n long
ListsUpTo(n) ==
    UNION { { s \in [1..k -> Files] : \A x, y \in 1..k : x # y => s[x] # s[y] } : k \in 0..n }

FileLists == ListsUpTo(MaxFiles)

DraggedLists == ListsUpTo(MaxDragged)

\* The root node, a DOM child of it, and a child rendered through a portal:
\* its events bubble to the root's handlers, but the root does not contain it.
Targets == {"root", "child", "portal"}

DocTargets == Targets \cup {"outside"}

\* evt.dataTransfer.types of a drag event: with files, or text only
DataTransfers == {"files", "text"}

KeyCodes == {13, 32, 65}

HandlerNames ==
    {"onClick", "onKeyDown", "onFocus", "onBlur", "onDragStart", "onDragEnter",
     "onDragOver", "onDragLeave", "onDrop", "onDropAccepted", "onDropRejected",
     "onFileDialogCancel"}

\* which callback props are given
HandlerSets == {HandlerNames, {}, {"onDrop"}, HandlerNames \ {"onDrop"}}

Slots == 1..MaxPending

\* what inst.onDrop reads from propsRef.current when the event arrives and its
\* promise's continuation keeps in its closure: multiple, accept and the
\* three drop callbacks
DropCallbacks == {"onDrop", "onDropAccepted", "onDropRejected"}

Captured(p) ==
    [multiple |-> p.multiple, accept |-> p.accept, handlers |-> p.handlers \cap DropCallbacks]

\* the closure of a continuation that reads none of them
NoCapture == [multiple |-> TRUE, accept |-> Null, handlers |-> {}]

NoEvent == [kind |-> "none", stopped |-> FALSE, captured |-> NoCapture]

----------------------------------------------------------------------------
(* Helpers of ./utils and of the DOM *)

\* nodeRef.current.contains(el)
Contains(el) == el \in {"root", "child"}

\* nodeRef.current != null, inputRef.current != null: React attaches the refs
\* when it commits the elements and clears them when it removes them.
NodeAttached == phase # "unmounted"

InputAttached == phase # "unmounted"

\* an event with no dataTransfer (the input's change event) counts as one with files
isDragDataWithFiles(dt) == dt = "none" \/ dt = "files"

fileAccepted(file, accept) == accept = Null \/ file.type = accept

fileMatchSize(file, maxSize, minSize) == file.size <= maxSize /\ file.size >= minSize

isIeOrEdge == ieOrEdge

Has(h) == h \in props.handlers

\* an event as a call sees it: its type, the promise it left pending (0 for
\* none) and what isPropagationStopped answers
Evt(type, id, stopped) == [type |-> type, id |-> id, stopped |-> stopped]

Ev(type) == Evt(type, 0, FALSE)

\* one call: the function, the event it is about, the other arguments
Call(fn, evt, args) == [fn |-> fn, evt |-> evt, args |-> args]

\* the continuation of the promise of event evt, entered with the file list
Then(evt, files) == Call("then", evt, <<files>>)

\* the same for a drop, with what its closure captured at the event
ThenDrop(evt, files, captured) == Call("then", evt, <<files, captured>>)

Maybe(cond, call) == IF cond THEN <<call>> ELSE <<>>

----------------------------------------------------------------------------
(* Initial state *)

NoTimers == [given \in BOOLEAN |-> 0]

createInitialState ==
    [draggedFiles |-> <<>>, acceptedFiles |-> <<>>, rejectedFiles |-> <<>>,
     isDragActive |-> FALSE, isFocused |-> FALSE]

\* sizes are in bytes; the files above have sizes 1, 2 and 3
PropsSpace ==
    [disabled : BOOLEAN, multiple : BOOLEAN, preventDropOnDocument : BOOLEAN,
     accept : {Null, "image/png"}, minSize : {NoSize, 2}, maxSize : {NoSize, 2},
     handlers : HandlerSets]

DefaultProps ==
    [disabled |-> FALSE, multiple |-> TRUE, preventDropOnDocument |-> TRUE,
     accept |-> Null, minSize |-> NoSize, maxSize |-> NoSize, handlers |-> {}]

\* the listeners the effect installs
EffectListeners ==
    (IF props.preventDropOnDocument THEN {"document.dragover", "document.drop"} ELSE {})
    \cup {"window.focus"}

\* the listeners the effect's cleanup removes: its closure holds the
\* preventDropOnDocument of the first render, by which the document's
\* listeners were added or not
CleanupListeners ==
    (IF "document.drop" \in listeners THEN {"document.dragover", "document.drop"} ELSE {})
    \cup {"window.focus"}

\* the hook after its first render
Rendered ==
    /\ state = createInitialState
    /\ lastFocusEvent = "none"
    /\ dragTargets = <<>>
    /\ isFileDialogActive = FALSE
    /\ inputHasFiles = FALSE
    /\ phase = "rendered"
    /\ listeners = {}
    /\ pending = [i \in Slots |-> NoEvent]
    /\ openTimers = 0
    /\ cancelTimers = NoTimers
    /\ calls = <<>>

\* the hook after its first render and its effect
Mounted ==
    /\ state = createInitialState
    /\ lastFocusEvent = "none"
    /\ dragTargets = <<>>
    /\ isFileDialogActive = FALSE
    /\ inputHasFiles = FALSE
    /\ phase = "mounted"
    /\ listeners = EffectListeners
    /\ pending = [i \in Slots |-> NoEvent]
    /\ openTimers = 0
    /\ cancelTimers = NoTimers
    /\ calls = <<>>

----------------------------------------------------------------------------
(* Pieces of the handlers *)

\* composeHandler: a disabled dropzone hands out null root handlers.
composeHandler == ~props.disabled

\* an event at the root for which getRootProps gave no handler
NoHandler ==
    /\ calls' = <<>>
    /\ UNCHANGED <<props, lastFocusEvent, ieOrEdge, state, dragTargets, isFileDialogActive, inputHasFiles,
                   phase, listeners, pending, openTimers, cancelTimers>>

\* a focus or blur event at the root for which getRootProps gave no handler
NoFocusHandler ==
    /\ calls' = <<>>
    /\ UNCHANGED <<props, ieOrEdge, state, dragTargets, isFileDialogActive, inputHasFiles,
                   phase, listeners, pending, openTimers, cancelTimers>>

FreeSlots == { i \in Slots : pending[i].kind = "none" }

FreeSlot == CHOOSE i \in FreeSlots : \A j \in FreeSlots : i <= j

\* Promise.resolve(getDataTransferItems(evt)).then(...) left pending for the event;
\* stopped is what isPropagationStopped(evt) will answer when it resolves
Await(kind, stopped) ==
    [pending EXCEPT ![FreeSlot] =
        [kind |-> kind, stopped |-> stopped,
         captured |-> IF kind = "drop" THEN Captured(props) ELSE NoCapture]]

Settle(i) == [pending EXCEPT ![i] = NoEvent]

\* if (dragTargetsRef.current.indexOf(evt.target) === -1) push(evt.target)
EnterTargets(targets, t) ==
    IF t \in Range(targets) THEN targets ELSE Append(targets, t)

\* Mutant of LeaveTargets: the target being left is not taken out
LeaveTargetsKeepingLeft(targets, t) ==
    SelectSeq(targets, LAMBDA el : NodeAttached /\ Contains(el))

\* dragTargetsRef.current.filter(el => el !== evt.target && nodeRef.current != null && nodeRef.current.contains(el))
LeaveTargets(targets, t) ==
    SelectSeq(targets, LAMBDA el : el # t /\ NodeAttached /\ Contains(el))

\* propsRef.current.maxSize == null ? Infinity : maxSize, minSize == null ? 0 : minSize
Infinity == 1000000

MaxSizeOf(p) == IF p.maxSize = NoSize THEN Infinity ELSE p.maxSize

MinSizeOf(p) == IF p.minSize = NoSize THEN 0 ELSE p.minSize

\* the test of fileList.forEach in onDrop: accept as the event found it, the
\* size limits as propsRef.current has them when the promise resolves
Passes(file, accept) ==
    /\ fileAccepted(file, accept)
    /\ fileMatchSize(file, MaxSizeOf(props), MinSizeOf(props))

\* Mutant of Accepted: the size test forgotten
AcceptedIgnoringSize(fileList, accept) == SelectSeq(fileList, LAMBDA f : fileAccepted(f, accept))

Accepted(fileList, accept) == SelectSeq(fileList, LAMBDA f : Passes(f, accept))

Rejected(fileList, accept) == SelectSeq(fileList, LAMBDA f : ~Passes(f, accept))

\* if (!multiple && acceptedFiles.length > 1) rejectedFiles.push(...acceptedFiles.splice(0))
\* Mutant of SingleMode: splice(1) for splice(0), the first accepted file kept
SingleModeKeepingFirst(acc, rej, multiple) ==
    IF ~multiple /\ Len(acc) > 1
    THEN [acceptedFiles |-> <<Head(acc)>>, rejectedFiles |-> rej \o Tail(acc)]
    ELSE [acceptedFiles |-> acc, rejectedFiles |-> rej]

SingleMode(acc, rej, multiple) ==
    IF ~multiple /\ Len(acc) > 1
    THEN [acceptedFiles |-> <<>>, rejectedFiles |-> rej \o acc]
    ELSE [acceptedFiles |-> acc, rejectedFiles |-> rej]

Sorted(fileList, c) ==
    SingleMode(Accepted(fileList, c.accept), Rejected(fileList, c.accept), c.multiple)

\* the three callbacks at the end of onDrop's continuation
\* Mutant of DropCalls: onDrop called only for a drop that accepted something
DropCallsWhenAccepted(acc, rej, id, given) ==
    Maybe("onDrop" \in given /\ Len(acc) > 0, Call("onDrop", Evt("drop", id, FALSE), <<acc, rej>>))
    \o Maybe(Len(rej) > 0 /\ "onDropRejected" \in given, Call("onDropRejected", Evt("drop", id, FALSE), <<rej>>))
    \o Maybe(Len(acc) > 0 /\ "onDropAccepted" \in given, Call("onDropAccepted", Evt("drop", id, FALSE), <<acc>>))

\* Mutant of DropCalls: onDropAccepted before onDropRejected
DropCallsAcceptedFirst(acc, rej, id, given) ==
    Maybe("onDrop" \in given, Call("onDrop", Evt("drop", id, FALSE), <<acc, rej>>))
    \o Maybe(Len(acc) > 0 /\ "onDropAccepted" \in given, Call("onDropAccepted", Evt("drop", id, FALSE), <<acc>>))
    \o Maybe(Len(rej) > 0 /\ "onDropRejected" \in given, Call("onDropRejected", Evt("drop", id, FALSE), <<rej>>))

DropCalls(acc, rej, id, given) ==
    Maybe("onDrop" \in given, Call("onDrop", Evt("drop", id, FALSE), <<acc, rej>>))
    \o Maybe(Len(rej) > 0 /\ "onDropRejected" \in given, Call("onDropRejected", Evt("drop", id, FALSE), <<rej>>))
    \o Maybe(Len(acc) > 0 /\ "onDropAccepted" \in given, Call("onDropAccepted", Evt("drop", id, FALSE), <<acc>>))

\* open(): what it calls, and what it leaves in the input
OpenCalls == Maybe(InputAttached, Call("input.click", Ev("open"), <<>>))

OpenInput == IF InputAttached THEN FALSE ELSE inputHasFiles

\* What the hook returns besides state
RootTabIndex == IF props.disabled THEN -1 ELSE 0

ReportedIsFocused == state.isFocused /\ ~props.disabled

----------------------------------------------------------------------------
(* Lifecycle: the effect and its cleanup *)

Mount ==
    /\ phase = "rendered"
    /\ phase' = "mounted"
    /\ listeners' = listeners \cup EffectListeners
    /\ calls' = <<>>
    /\ UNCHANGED <<props, lastFocusEvent, ieOrEdge, state, dragTargets, isFileDialogActive, inputHasFiles,
                   pending, openTimers, cancelTimers>>

Unmount ==
    /\ phase = "mounted"
    /\ phase' = "unmounted"
    /\ listeners' = listeners \ CleanupListeners
    /\ calls' = <<>>
    /\ UNCHANGED <<props, lastFocusEvent, ieOrEdge, state, dragTargets, isFileDialogActive, inputHasFiles,
                   pending, openTimers, cancelTimers>>

\* a later render with other props p: propsRef.current = props, the state and
\* the refs kept, the effect (deps []) not run again
Render(p) ==
    /\ phase = "mounted"
    /\ p # props
    /\ props' = p
    /\ calls' = <<>>
    /\ UNCHANGED <<lastFocusEvent, ieOrEdge, state, dragTargets, isFileDialogActive,
                   inputHasFiles, phase, listeners, pending, openTimers, cancelTimers>>

----------------------------------------------------------------------------
(* The handlers of inst *)

\* Mutant of onDocumentDrop: the test for a target inside the root forgotten
onDocumentDropAnywhere(t) ==
    /\ "document.drop" \in listeners
    /\ calls' = <<Call("evt.preventDefault", Ev("document.drop"), <<>>)>>
    /\ dragTargets' = <<>>
    /\ UNCHANGED <<props, lastFocusEvent, ieOrEdge, state, isFileDialogActive, inputHasFiles, phase,
                   listeners, pending, openTimers, cancelTimers>>

onDocumentDrop(t) ==
    /\ "document.drop" \in listeners
    /\ IF NodeAttached /\ Contains(t)
       THEN /\ calls' = <<>>
            /\ UNCHANGED dragTargets
       ELSE /\ calls' = <<Call("evt.preventDefault", Ev("document.drop"), <<>>)>>
            /\ dragTargets' = <<>>
    /\ UNCHANGED <<props, lastFocusEvent, ieOrEdge, state, isFileDialogActive, inputHasFiles, phase,
                   listeners, pending, openTimers, cancelTimers>>

instOnDragStart(dt) ==
    /\ calls' = Maybe(Has("onDragStart") /\ isDragDataWithFiles(dt), Call("onDragStart", Ev("dragstart"), <<>>))
    /\ UNCHANGED <<props, lastFocusEvent, ieOrEdge, state, dragTargets, isFileDialogActive, inputHasFiles,
                   phase, listeners, pending, openTimers, cancelTimers>>

\* Mutant of instOnDragEnter: the test of the drag data forgotten
instOnDragEnterAnyData(t, dt, stopped) ==
    /\ dragTargets' = EnterTargets(dragTargets, t)
    /\ FreeSlots # {}
    /\ pending' = Await("enter", stopped)
    /\ calls' = <<Call("evt.preventDefault", Ev("dragenter"), <<>>)>>
                \o Maybe(Has("onDragEnter"), Call("onDragEnter", Ev("dragenter"), <<>>))
    /\ UNCHANGED <<props, lastFocusEvent, ieOrEdge, state, isFileDialogActive, inputHasFiles, phase,
                   listeners, openTimers, cancelTimers>>

instOnDragEnter(t, dt, stopped) ==
    /\ dragTargets' = EnterTargets(dragTargets, t)
    /\ IF isDragDataWithFiles(dt)
       THEN /\ FreeSlots # {}
            /\ pending' = Await("enter", stopped)
            /\ calls' = <<Call("evt.preventDefault", Ev("dragenter"), <<>>)>>
                        \o Maybe(Has("onDragEnter"), Call("onDragEnter", Ev("dragenter"), <<>>))
       ELSE /\ ~stopped
            /\ calls' = <<Call("evt.preventDefault", Ev("dragenter"), <<>>)>>
            /\ UNCHANGED pending
    /\ UNCHANGED <<props, lastFocusEvent, ieOrEdge, state, isFileDialogActive, inputHasFiles, phase,
                   listeners, openTimers, cancelTimers>>

\* the continuation of onDragEnter's promise
ResolveDragEnter(i, draggedFiles) ==
    /\ pending[i].kind = "enter"
    /\ pending' = Settle(i)
    /\ IF pending[i].stopped
       THEN UNCHANGED state
       ELSE state' = [state EXCEPT !.draggedFiles = draggedFiles, !.isDragActive = TRUE]
    /\ calls' = <<Then(Evt("dragenter", i, pending[i].stopped), draggedFiles)>>
    /\ UNCHANGED <<props, lastFocusEvent, ieOrEdge, dragTargets, isFileDialogActive, inputHasFiles, phase,
                   listeners, openTimers, cancelTimers>>

instOnDragOver(dt) ==
    /\ calls' = <<Call("evt.preventDefault", Ev("dragover"), <<>>)>>
                \o Maybe(Has("onDragOver") /\ isDragDataWithFiles(dt), Call("onDragOver", Ev("dragover"), <<>>))
    /\ UNCHANGED <<props, lastFocusEvent, ieOrEdge, state, dragTargets, isFileDialogActive, inputHasFiles,
                   phase, listeners, pending, openTimers, cancelTimers>>

instOnDragLeave(t, dt) ==
    /\ dragTargets' = LeaveTargets(dragTargets, t)
    /\ IF Len(dragTargets') > 0
       THEN /\ calls' = <<Call("evt.preventDefault", Ev("dragleave"), <<>>)>>
            /\ UNCHANGED state
       ELSE /\ state' = [state EXCEPT !.isDragActive = FALSE, !.draggedFiles = <<>>]
            /\ calls' = <<Call("evt.preventDefault", Ev("dragleave"), <<>>)>>
                        \o Maybe(Has("onDragLeave") /\ isDragDataWithFiles(dt),
                                 Call("onDragLeave", Ev("dragleave"), <<>>))
    /\ UNCHANGED <<props, lastFocusEvent, ieOrEdge, isFileDialogActive, inputHasFiles, phase, listeners,
                   pending, openTimers, cancelTimers>>

\* inst.onDrop up to its promise; evt is "drop" at the root and "change" at the input
instOnDrop(evt, dt, stopped) ==
    /\ dragTargets' = <<>>
    /\ isFileDialogActive' = FALSE
    /\ state' = [state EXCEPT !.isDragActive = FALSE, !.draggedFiles = <<>>]
    /\ IF isDragDataWithFiles(dt)
       THEN /\ FreeSlots # {}
            /\ pending' = Await("drop", stopped)
       ELSE /\ ~stopped
            /\ UNCHANGED pending
    /\ calls' = <<Call("evt.preventDefault", Ev(evt), <<>>)>>

\* the continuation of onDrop's promise
ResolveDrop(i, fileList) ==
    /\ pending[i].kind = "drop"
    /\ pending' = Settle(i)
    /\ IF pending[i].stopped
       THEN /\ calls' = <<ThenDrop(Evt("drop", i, TRUE), fileList, pending[i].captured)>>
            /\ UNCHANGED state
       ELSE LET c == pending[i].captured
                s == Sorted(fileList, c)
            IN
            /\ state' = [state EXCEPT !.acceptedFiles = s.acceptedFiles,
                                      !.rejectedFiles = s.rejectedFiles]
            /\ calls' = <<ThenDrop(Evt("drop", i, FALSE), fileList, c)>>
                        \o DropCalls(s.acceptedFiles, s.rejectedFiles, i, c.handlers)
    /\ UNCHANGED <<props, lastFocusEvent, ieOrEdge, dragTargets, isFileDialogActive, inputHasFiles, phase,
                   listeners, openTimers, cancelTimers>>

open ==
    /\ isFileDialogActive' = TRUE
    /\ inputHasFiles' = OpenInput
    /\ calls' = OpenCalls
    /\ UNCHANGED <<props, lastFocusEvent, ieOrEdge, state, dragTargets, phase, listeners, pending,
                   openTimers, cancelTimers>>

\* Mutant of instOnClick: open() called at once on IE/Edge too
instOnClickNeverDeferred(prevented) ==
    /\ prevented => Has("onClick")
    /\ IF prevented
       THEN /\ calls' = Maybe(Has("onClick"), Call("onClick", Ev("click"), <<>>))
            /\ UNCHANGED <<isFileDialogActive, inputHasFiles, openTimers>>
       ELSE /\ isFileDialogActive' = TRUE
            /\ inputHasFiles' = OpenInput
            /\ calls' = Maybe(Has("onClick"), Call("onClick", Ev("click"), <<>>)) \o OpenCalls
            /\ UNCHANGED openTimers
    /\ UNCHANGED <<props, lastFocusEvent, ieOrEdge, state, dragTargets, phase, listeners, pending, cancelTimers>>

\* prevented: the onClick prop called evt.preventDefault()
instOnClick(prevented) ==
    /\ prevented => Has("onClick")
    /\ IF prevented
       THEN /\ calls' = Maybe(Has("onClick"), Call("onClick", Ev("click"), <<>>))
            /\ UNCHANGED <<isFileDialogActive, inputHasFiles, openTimers>>
       ELSE IF isIeOrEdge
       THEN /\ openTimers < MaxTimers
            /\ openTimers' = openTimers + 1
            /\ calls' = Maybe(Has("onClick"), Call("onClick", Ev("click"), <<>>))
            /\ UNCHANGED <<isFileDialogActive, inputHasFiles>>
       ELSE /\ isFileDialogActive' = TRUE
            /\ inputHasFiles' = OpenInput
            /\ calls' = Maybe(Has("onClick"), Call("onClick", Ev("click"), <<>>)) \o OpenCalls
            /\ UNCHANGED openTimers
    /\ UNCHANGED <<props, lastFocusEvent, ieOrEdge, state, dragTargets, phase, listeners, pending, cancelTimers>>

\* setTimeout(open, 0) firing
OpenTimer ==
    /\ openTimers > 0
    /\ openTimers' = openTimers - 1
    /\ isFileDialogActive' = TRUE
    /\ inputHasFiles' = OpenInput
    /\ calls' = OpenCalls
    /\ UNCHANGED <<props, lastFocusEvent, ieOrEdge, state, dragTargets, phase, listeners, pending, cancelTimers>>

\* the window's focus listener
onFileDialogCancel ==
    /\ "window.focus" \in listeners
    /\ IF isFileDialogActive
       THEN /\ cancelTimers[TRUE] + cancelTimers[FALSE] < MaxTimers
            /\ cancelTimers' = [cancelTimers EXCEPT ![Has("onFileDialogCancel")] = @ + 1]
       ELSE UNCHANGED cancelTimers
    /\ calls' = <<>>
    /\ UNCHANGED <<props, lastFocusEvent, ieOrEdge, state, dragTargets, isFileDialogActive, inputHasFiles,
                   phase, listeners, pending, openTimers>>

\* the 300 ms timer of onFileDialogCancel firing; given: the prop was given
\* when the window regained focus (the timer's closure holds it)
CancelTimer(given) ==
    /\ cancelTimers[given] > 0
    /\ cancelTimers' = [cancelTimers EXCEPT ![given] = @ - 1]
    /\ IF InputAttached /\ ~inputHasFiles
       THEN /\ isFileDialogActive' = FALSE
            /\ calls' = Maybe(given, Call("onFileDialogCancel", Ev("timer"), <<>>))
       ELSE /\ calls' = <<>>
            /\ UNCHANGED isFileDialogActive
    /\ UNCHANGED <<props, lastFocusEvent, ieOrEdge, state, dragTargets, inputHasFiles, phase, listeners,
                   pending, openTimers>>

instOnFocus(prevented) ==
    /\ prevented => Has("onFocus")
    /\ calls' = Maybe(Has("onFocus"), Call("onFocus", Ev("focus"), <<>>))
    /\ IF prevented THEN UNCHANGED state ELSE state' = [state EXCEPT !.isFocused = TRUE]
    /\ UNCHANGED <<props, ieOrEdge, dragTargets, isFileDialogActive, inputHasFiles, phase,
                   listeners, pending, openTimers, cancelTimers>>

instOnBlur(prevented) ==
    /\ prevented => Has("onBlur")
    /\ calls' = Maybe(Has("onBlur"), Call("onBlur", Ev("blur"), <<>>))
    /\ IF prevented THEN UNCHANGED state ELSE state' = [state EXCEPT !.isFocused = FALSE]
    /\ UNCHANGED <<props, ieOrEdge, dragTargets, isFileDialogActive, inputHasFiles, phase,
                   listeners, pending, openTimers, cancelTimers>>

\* nodeRef.current.isEqualNode(evt.target): the event's target is the root itself
instOnKeyDown(t, keyCode, prevented) ==
    /\ prevented => (Has("onKeyDown") /\ t = "root")
    /\ IF ~NodeAttached \/ t # "root"
       THEN /\ calls' = <<>>
            /\ UNCHANGED <<isFileDialogActive, inputHasFiles>>
       ELSE IF ~prevented /\ keyCode \in {32, 13}
       THEN /\ isFileDialogActive' = TRUE
            /\ inputHasFiles' = OpenInput
            /\ calls' = Maybe(Has("onKeyDown"), Call("onKeyDown", Ev("keydown"), <<>>))
                        \o <<Call("evt.preventDefault", Ev("keydown"), <<>>)>> \o OpenCalls
       ELSE /\ calls' = Maybe(Has("onKeyDown"), Call("onKeyDown", Ev("keydown"), <<>>))
            /\ UNCHANGED <<isFileDialogActive, inputHasFiles>>
    /\ UNCHANGED <<props, lastFocusEvent, ieOrEdge, state, dragTargets, phase, listeners, pending,
                   openTimers, cancelTimers>>

----------------------------------------------------------------------------
(* Events at the elements that carry getRootProps() and getInputProps() *)

onDragStart(dt) ==
    /\ NodeAttached
    /\ IF composeHandler THEN instOnDragStart(dt) ELSE NoHandler

onDragEnter(t, dt, stopped) ==
    /\ NodeAttached
    /\ IF composeHandler THEN instOnDragEnter(t, dt, stopped) ELSE NoHandler

onDragOver(dt) ==
    /\ NodeAttached
    /\ IF composeHandler THEN instOnDragOver(dt) ELSE NoHandler

onDragLeave(t, dt) ==
    /\ NodeAttached
    /\ IF composeHandler THEN instOnDragLeave(t, dt) ELSE NoHandler

onDrop(dt, stopped) ==
    /\ NodeAttached
    /\ IF composeHandler
       THEN /\ instOnDrop("drop", dt, stopped)
            /\ UNCHANGED <<props, lastFocusEvent, ieOrEdge, inputHasFiles, phase, listeners, openTimers,
                           cancelTimers>>
       ELSE NoHandler

onClick(prevented) ==
    /\ NodeAttached
    /\ IF composeHandler THEN instOnClick(prevented) ELSE NoHandler

onFocus(prevented) ==
    /\ NodeAttached
    /\ IF composeHandler THEN instOnFocus(prevented) ELSE ~prevented /\ NoFocusHandler
    /\ lastFocusEvent' = IF prevented THEN lastFocusEvent ELSE "focus"

onBlur(prevented) ==
    /\ NodeAttached
    /\ IF composeHandler THEN instOnBlur(prevented) ELSE ~prevented /\ NoFocusHandler
    /\ lastFocusEvent' = IF prevented THEN lastFocusEvent ELSE "blur"

onKeyDown(t, keyCode, prevented) ==
    /\ NodeAttached
    /\ IF composeHandler THEN instOnKeyDown(t, keyCode, prevented) ELSE NoHandler

\* getInputProps: onChange is composeEventHandlers(onChange, inst.onDrop), with
\* no composeHandler around it; a change event has no dataTransfer.
onChange(hasFiles, stopped) ==
    /\ InputAttached
    /\ inputHasFiles' = hasFiles
    /\ instOnDrop("change", "none", stopped)
    /\ UNCHANGED <<props, lastFocusEvent, ieOrEdge, phase, listeners, openTimers, cancelTimers>>

\* getInputProps: onClick is composeEventHandlers(onClick, inst.onInputElementClick),
\* which only stops the propagation of the click
onInputElementClick ==
    /\ InputAttached
    /\ calls' = <<>>
    /\ UNCHANGED <<props, lastFocusEvent, ieOrEdge, state, dragTargets, isFileDialogActive, inputHasFiles,
                   phase, listeners, pending, openTimers, cancelTimers>>

----------------------------------------------------------------------------
(* The machine *)

\* a promise resolving to no file at all (Safari during a drag)
NoFiles == {<<>>}

\* The file lists the promise of event i is resolved with.  A continuation
\* that finds the propagation stopped returns before it reads its list, so
\* one list stands for all of them there.
Resolutions(i, lists) == IF pending[i].stopped THEN NoFiles ELSE lists

Init ==
    /\ props \in PropsSpace
    /\ ieOrEdge \in BOOLEAN
    /\ Rendered

Next ==
    \/ Mount
    \/ Unmount
    \/ \E p \in PropsSpace : Render(p)
    \/ \E t \in DocTargets : onDocumentDrop(t)
    \/ \E dt \in DataTransfers : onDragStart(dt)
    \/ \E t \in Targets, dt \in DataTransfers, stopped \in BOOLEAN : onDragEnter(t, dt, stopped)
    \/ \E i \in Slots : \E draggedFiles \in Resolutions(i, DraggedLists) : ResolveDragEnter(i, draggedFiles)
    \/ \E dt \in DataTransfers : onDragOver(dt)
    \/ \E t \in Targets, dt \in DataTransfers : onDragLeave(t, dt)
    \/ \E dt \in DataTransfers, stopped \in BOOLEAN : onDrop(dt, stopped)
    \/ \E hasFiles \in BOOLEAN, stopped \in BOOLEAN : onChange(hasFiles, stopped)
    \/ \E i \in Slots : \E fileList \in Resolutions(i, FileLists) : ResolveDrop(i, fileList)
    \/ open
    \/ \E prevented \in BOOLEAN : onClick(prevented)
    \/ OpenTimer
    \/ onInputElementClick
    \/ onFileDialogCancel
    \/ \E given \in BOOLEAN : CancelTimer(given)
    \/ \E prevented \in BOOLEAN : onFocus(prevented)
    \/ \E prevented \in BOOLEAN : onBlur(prevented)
    \/ \E t \in Targets, keyCode \in KeyCodes, prevented \in BOOLEAN : onKeyDown(t, keyCode, prevented)

Spec == Init /\ [][Next]_vars

----------------------------------------------------------------------------
(* The same machine, one concern at a time.  Each of these keeps every       *)
(* action that writes a variable its claims read, starts from a state the   *)
(* full machine reaches, and draws the inputs its claims do not read from   *)
(* the smallest set.                                                        *)

\* Drops: how a resolved file list is split and reported
DropProps == { p \in PropsSpace : ~p.disabled /\ p.preventDropOnDocument }

InitDrop ==
    /\ props \in DropProps
    /\ ieOrEdge = FALSE
    /\ Mounted

NextDrop ==
    \/ \E dt \in DataTransfers, stopped \in BOOLEAN : onDrop(dt, stopped)
    \/ \E stopped \in BOOLEAN : onChange(TRUE, stopped)
    \/ \E i \in Slots : \E fileList \in Resolutions(i, FileLists) : ResolveDrop(i, fileList)

SpecDrop == InitDrop /\ [][NextDrop]_vars

\* Drops against renders: the props change between a drop and the resolution
\* of its file list
RenderDropProps ==
    { [DefaultProps EXCEPT !.accept = "image/png", !.multiple = m, !.handlers = h] :
        m \in BOOLEAN, h \in {HandlerNames, {}} }

InitDropRender ==
    /\ props \in RenderDropProps
    /\ ieOrEdge = FALSE
    /\ Mounted

NextDropRender ==
    \/ \E p \in RenderDropProps : Render(p)
    \/ \E dt \in DataTransfers : onDrop(dt, FALSE)
    \/ onChange(TRUE, FALSE)
    \/ \E i \in Slots : \E fileList \in Resolutions(i, FileLists) : ResolveDrop(i, fileList)

SpecDropRender == InitDropRender /\ [][NextDropRender]_vars

\* Drags: the entered targets and the drag state
InitDrag ==
    /\ props \in { [DefaultProps EXCEPT !.handlers = h] : h \in {HandlerNames, {}} }
    /\ ieOrEdge = FALSE
    /\ Mounted

NextDrag ==
    \/ \E t \in Targets, dt \in DataTransfers, stopped \in BOOLEAN : onDragEnter(t, dt, stopped)
    \/ \E i \in Slots : \E draggedFiles \in Resolutions(i, DraggedLists) : ResolveDragEnter(i, draggedFiles)
    \/ \E t \in Targets, dt \in DataTransfers : onDragLeave(t, dt)
    \/ \E dt \in DataTransfers, stopped \in BOOLEAN : onDrop(dt, stopped)
    \/ \E i \in Slots : \E fileList \in Resolutions(i, NoFiles) : ResolveDrop(i, fileList)
    \/ \E t \in DocTargets : onDocumentDrop(t)
    \/ Unmount

SpecDrag == InitDrag /\ [][NextDrag]_vars

\* The events of one drag over the dropzone, against their promises
NextDragEnd ==
    \/ \E t \in Targets, dt \in DataTransfers, stopped \in BOOLEAN : onDragEnter(t, dt, stopped)
    \/ \E i \in Slots : \E draggedFiles \in Resolutions(i, DraggedLists) : ResolveDragEnter(i, draggedFiles)
    \/ \E t \in Targets, dt \in DataTransfers : onDragLeave(t, dt)
    \/ \E dt \in DataTransfers, stopped \in BOOLEAN : onDrop(dt, stopped)
    \/ \E i \in Slots : \E fileList \in Resolutions(i, NoFiles) : ResolveDrop(i, fileList)

SpecDragEnd == InitDrag /\ [][NextDragEnd]_vars

\* The file dialog: clicks, keys, open(), the timers and the window's focus
InitDialog ==
    /\ props \in { [DefaultProps EXCEPT !.handlers = h] : h \in {HandlerNames, {}} }
    /\ ieOrEdge \in BOOLEAN
    /\ Mounted

NextDialog ==
    \/ open
    \/ \E prevented \in BOOLEAN : onClick(prevented)
    \/ OpenTimer
    \/ onInputElementClick
    \/ onFileDialogCancel
    \/ \E given \in BOOLEAN : CancelTimer(given)
    \/ \E t \in Targets, keyCode \in KeyCodes, prevented \in BOOLEAN : onKeyDown(t, keyCode, prevented)
    \/ \E dt \in DataTransfers, stopped \in BOOLEAN : onDrop(dt, stopped)
    \/ \E hasFiles \in BOOLEAN, stopped \in BOOLEAN : onChange(hasFiles, stopped)
    \/ \E i \in Slots : \E fileList \in Resolutions(i, NoFiles) : ResolveDrop(i, fileList)
    \/ Unmount

SpecDialog == InitDialog /\ [][NextDialog]_vars

\* Drops on the document: the effect, its cleanup and the document's listener
InitDocument ==
    /\ props \in { [DefaultProps EXCEPT !.preventDropOnDocument = b] : b \in BOOLEAN }
    /\ ieOrEdge = FALSE
    /\ Rendered

NextDocument ==
    \/ Mount
    \/ Unmount
    \/ \E b \in BOOLEAN : Render([props EXCEPT !.preventDropOnDocument = b])
    \/ \E t \in DocTargets : onDocumentDrop(t)
    \/ \E t \in Targets, dt \in DataTransfers, stopped \in BOOLEAN : onDragEnter(t, dt, stopped)
    \/ \E i \in Slots : \E draggedFiles \in Resolutions(i, DraggedLists) : ResolveDragEnter(i, draggedFiles)
    \/ \E t \in Targets, dt \in DataTransfers : onDragLeave(t, dt)
    \/ \E dt \in DataTransfers, stopped \in BOOLEAN : onDrop(dt, stopped)
    \/ \E i \in Slots : \E fileList \in Resolutions(i, NoFiles) : ResolveDrop(i, fileList)

SpecDocument == InitDocument /\ [][NextDocument]_vars

\* A disabled dropzone: every event, with the disabled prop set
InitDisabled ==
    /\ props \in { [DefaultProps EXCEPT !.disabled = TRUE, !.handlers = h] : h \in {HandlerNames, {}} }
    /\ ieOrEdge \in BOOLEAN
    /\ Mounted

\* every event that can be delivered, and every step that can follow one
\* while disabled is set (no click sets a timer, no drag-enter leaves a promise)
NextDisabled ==
    \/ Unmount
    \/ \E t \in DocTargets : onDocumentDrop(t)
    \/ \E dt \in DataTransfers : onDragStart(dt)
    \/ \E t \in Targets, dt \in DataTransfers, stopped \in BOOLEAN : onDragEnter(t, dt, stopped)
    \/ \E dt \in DataTransfers : onDragOver(dt)
    \/ \E t \in Targets, dt \in DataTransfers : onDragLeave(t, dt)
    \/ \E dt \in DataTransfers, stopped \in BOOLEAN : onDrop(dt, stopped)
    \/ \E stopped \in BOOLEAN : onChange(TRUE, stopped)
    \/ \E i \in Slots : \E fileList \in Resolutions(i, FileLists) : ResolveDrop(i, fileList)
    \/ open
    \/ \E prevented \in BOOLEAN : onClick(prevented)
    \/ onInputElementClick
    \/ onFileDialogCancel
    \/ \E given \in BOOLEAN : CancelTimer(given)
    \/ \E prevented \in BOOLEAN : onFocus(prevented)
    \/ \E prevented \in BOOLEAN : onBlur(prevented)
    \/ \E t \in Targets, keyCode \in KeyCodes, prevented \in BOOLEAN : onKeyDown(t, keyCode, prevented)

SpecDisabled == InitDisabled /\ [][NextDisabled]_vars

\* The drag events with and without files in their drag data
NextDragData ==
    \/ \E dt \in DataTransfers : onDragStart(dt)
    \/ \E t \in Targets, dt \in DataTransfers, stopped \in BOOLEAN : onDragEnter(t, dt, stopped)
    \/ \E i \in Slots : \E draggedFiles \in Resolutions(i, DraggedLists) : ResolveDragEnter(i, draggedFiles)
    \/ \E dt \in DataTransfers : onDragOver(dt)
    \/ \E t \in Targets, dt \in DataTransfers : onDragLeave(t, dt)

SpecDragData == InitDrag /\ [][NextDragData]_vars

\* Focus: focus and blur at the root, renders that set or clear disabled, and
\* the other handlers that update the React state or open the dialog
InitFocus ==
    /\ props \in { [DefaultProps EXCEPT !.disabled = d, !.handlers = h] :
                     d \in BOOLEAN, h \in {HandlerNames, {}} }
    /\ ieOrEdge = FALSE
    /\ Mounted

NextFocus ==
    \/ \E prevented \in BOOLEAN : onFocus(prevented)
    \/ \E prevented \in BOOLEAN : onBlur(prevented)
    \/ \E disabled \in BOOLEAN : Render([props EXCEPT !.disabled = disabled])
    \/ \E t \in Targets, keyCode \in KeyCodes, prevented \in BOOLEAN : onKeyDown(t, keyCode, prevented)
    \/ \E prevented \in BOOLEAN : onClick(prevented)
    \/ \E dt \in DataTransfers, stopped \in BOOLEAN : onDrop(dt, stopped)
    \/ \E i \in Slots : \E fileList \in Resolutions(i, FileLists) : ResolveDrop(i, fileList)
    \/ Unmount

SpecFocus == InitFocus /\ [][NextFocus]_vars

----------------------------------------------------------------------------
(* Vocabulary of the claims *)

\* the calls of fn among cs
CallsOf(cs, fn) == SelectSeq(cs, LAMBDA c : c.fn = fn)

Called(cs, fn) == Len(CallsOf(cs, fn)) > 0

\* the last step was the continuation of a drop's promise, propagation not stopped
Processed ==
    /\ Len(calls) > 0
    /\ calls[1].fn = "then"
    /\ calls[1].evt.type = "drop"
    /\ ~calls[1].evt.stopped

\* the file list that continuation was entered with, and its event
ProcessedList == calls[1].args[1]

ProcessedEvt == calls[1].evt

\* what that continuation's closure holds of the props the event found:
\* multiple, accept and the drop callbacks given
ProcessedProps == calls[1].args[2]

\* the file matches the accept prop of the drop and its size lies between
\* minSize (default 0) and maxSize (default unbounded)
Qualifies(f) ==
    /\ (ProcessedProps.accept = Null \/ f.type = ProcessedProps.accept)
    /\ (IF props.minSize = NoSize THEN f.size >= 0 ELSE f.size >= props.minSize)
    /\ (props.maxSize = NoSize \/ f.size <= props.maxSize)

Passing(fileList) == { f \in Range(fileList) : Qualifies(f) }

Position(fileList, f) == CHOOSE k \in 1..Len(fileList) : fileList[k] = f

\* sub holds files of fileList, in the order they have in fileList
KeepsOrder(sub, fileList) ==
    /\ Range(sub) \subseteq Range(fileList)
    /\ \A x, y \in 1..Len(sub) :
           x < y => Position(fileList, sub[x]) < Position(fileList, sub[y])

\* acc and rej hold every file of fileList, each once
Partitions(acc, rej, fileList) ==
    /\ Range(acc) \cup Range(rej) = Range(fileList)
    /\ Range(acc) \cap Range(rej) = {}
    /\ Len(acc) + Len(rej) = Len(fileList)

----------------------------------------------------------------------------
(* C1 *)

\* C1: every drop or input change that carries files leaves one promise
\* pending, and when that promise resolves with propagation not stopped the
\* onDrop prop is called exactly once, with the accepted files, the rejected
\* files and the event, whatever the lists hold (all rejected and empty
\* included).
C1_OnDropAlwaysCalled ==
    /\ [][ /\ \A dt \in DataTransfers, stopped \in BOOLEAN :
                  (onDrop(dt, stopped) /\ composeHandler /\ isDragDataWithFiles(dt))
                  => \E i \in Slots : /\ pending[i].kind = "none"
                                      /\ pending'[i] = [kind |-> "drop", stopped |-> stopped,
                                                         captured |-> Captured(props)]
           /\ \A hasFiles \in BOOLEAN, stopped \in BOOLEAN :
                  onChange(hasFiles, stopped)
                  => \E i \in Slots : /\ pending[i].kind = "none"
                                      /\ pending'[i] = [kind |-> "drop", stopped |-> stopped,
                                                         captured |-> Captured(props)]
         ]_vars
    /\ []((Processed /\ "onDrop" \in ProcessedProps.handlers)
          => /\ pending[ProcessedEvt.id] = NoEvent
             /\ CallsOf(calls, "onDrop")
                  = <<Call("onDrop", ProcessedEvt, <<state.acceptedFiles, state.rejectedFiles>>)>>
             /\ Partitions(state.acceptedFiles, state.rejectedFiles, ProcessedList))

\* a drop whose files were all rejected has been reported to onDrop
C1_Witness ==
    /\ Processed
    /\ Len(ProcessedList) > 0
    /\ CallsOf(calls, "onDrop") = <<Call("onDrop", ProcessedEvt, <<<<>>, ProcessedList>>)>>

----------------------------------------------------------------------------
(* C2 *)

\* C2 as claimed: the two lists partition the resolved list, each in the
\* list's order, and when multiple is set or at most one file passes a file
\* is accepted exactly when it matches accept and the size limits.
C2_Claimed ==
    Processed
    => LET acc == state.acceptedFiles
           rej == state.rejectedFiles
       IN  /\ Partitions(acc, rej, ProcessedList)
           /\ KeepsOrder(acc, ProcessedList)
           /\ KeepsOrder(rej, ProcessedList)
           /\ (ProcessedProps.multiple \/ Cardinality(Passing(ProcessedList)) <= 1)
              => \A f \in Range(ProcessedList) : f \in Range(acc) <=> Qualifies(f)

\* C2, amended: the two lists partition the resolved list; when multiple is
\* set or at most one file passes, each list is in the resolved list's order
\* and a file is accepted exactly when it matches accept and the size limits;
\* otherwise acceptedFiles is empty and rejectedFiles holds the files that
\* failed, in order, followed by the files that passed, in order.
C2_Partition ==
    Processed
    => LET acc == state.acceptedFiles
           rej == state.rejectedFiles
       IN  /\ Partitions(acc, rej, ProcessedList)
           /\ IF ProcessedProps.multiple \/ Cardinality(Passing(ProcessedList)) <= 1
              THEN /\ KeepsOrder(acc, ProcessedList)
                   /\ KeepsOrder(rej, ProcessedList)
                   /\ \A f \in Range(ProcessedList) : f \in Range(acc) <=> Qualifies(f)
              ELSE /\ acc = <<>>
                   /\ rej = SelectSeq(ProcessedList, LAMBDA f : ~Qualifies(f))
                            \o SelectSeq(ProcessedList, LAMBDA f : Qualifies(f))

\* a single-file drop of three files was split: the one file that failed,
\* the second of the drop, comes first in rejectedFiles
C2_Witness ==
    /\ Processed
    /\ ~ProcessedProps.multiple
    /\ Len(ProcessedList) = 3
    /\ ~Qualifies(ProcessedList[2])
    /\ state.rejectedFiles = <<ProcessedList[2], ProcessedList[1], ProcessedList[3]>>

----------------------------------------------------------------------------
(* C3 *)

\* C3: a drop in single-file mode never leaves more than one file in
\* acceptedFiles; one in which more than one file passes leaves acceptedFiles
\* empty, puts every dropped file in rejectedFiles and does not call
\* onDropAccepted.  The mode is the multiple prop the drop event found.
C3_SingleFile ==
    /\ (Processed /\ ~ProcessedProps.multiple) => Len(state.acceptedFiles) <= 1
    /\ (Processed /\ ~ProcessedProps.multiple /\ Cardinality(Passing(ProcessedList)) > 1)
       => /\ state.acceptedFiles = <<>>
          /\ Range(state.rejectedFiles) = Range(ProcessedList)
          /\ Len(state.rejectedFiles) = Len(ProcessedList)
          /\ ~Called(calls, "onDropAccepted")

\* a single-file drop in which two files passed has been processed
C3_Witness ==
    /\ Processed
    /\ ~ProcessedProps.multiple
    /\ Cardinality(Passing(ProcessedList)) > 1
    /\ Called(calls, "onDropRejected")
    /\ state.acceptedFiles = <<>>

----------------------------------------------------------------------------
(* C4 *)

DropCallbackRank(fn) ==
    IF fn = "then" THEN 0
    ELSE IF fn = "onDrop" THEN 1
    ELSE IF fn = "onDropRejected" THEN 2
    ELSE 3

\* C4: a processed drop calls onDropRejected exactly when rejectedFiles is
\* not empty and onDropAccepted exactly when acceptedFiles is not empty (each
\* when the prop was given at the drop), after onDrop and in that order, and passes each
\* the lists that are stored in the state.
C4_DropCallbacks ==
    Processed
    => LET acc == state.acceptedFiles
           rej == state.rejectedFiles
       IN  /\ \A k \in 1..Len(calls) :
                  calls[k].fn \in {"then", "onDrop", "onDropRejected", "onDropAccepted"}
           /\ \A x, y \in 1..Len(calls) :
                  x < y => DropCallbackRank(calls[x].fn) < DropCallbackRank(calls[y].fn)
           /\ Called(calls, "onDrop") <=> "onDrop" \in ProcessedProps.handlers
           /\ Called(calls, "onDropRejected")
              <=> (Len(rej) > 0 /\ "onDropRejected" \in ProcessedProps.handlers)
           /\ Called(calls, "onDropAccepted")
              <=> (Len(acc) > 0 /\ "onDropAccepted" \in ProcessedProps.handlers)
           /\ \A k \in 2..Len(calls) :
                  /\ calls[k].evt = ProcessedEvt
                  /\ calls[k].fn = "onDrop" => calls[k].args = <<acc, rej>>
                  /\ calls[k].fn = "onDropRejected" => calls[k].args = <<rej>>
                  /\ calls[k].fn = "onDropAccepted" => calls[k].args = <<acc>>

\* a drop with files on both sides has called the three callbacks
C4_Witness ==
    /\ Processed
    /\ Len(calls) = 4
    /\ calls[2].fn = "onDrop"
    /\ calls[3].fn = "onDropRejected"
    /\ calls[4].fn = "onDropAccepted"
    /\ Len(state.rejectedFiles) > 0
    /\ Len(state.acceptedFiles) > 0

----------------------------------------------------------------------------
(* C5 *)

\* an event arrives through a prop that getRootProps or getInputProps returned
Delivered ==
    \/ \E t \in Targets, keyCode \in KeyCodes, prevented \in BOOLEAN : onKeyDown(t, keyCode, prevented)
    \/ \E prevented \in BOOLEAN : onFocus(prevented) \/ onBlur(prevented) \/ onClick(prevented)
    \/ \E dt \in DataTransfers : onDragStart(dt) \/ onDragOver(dt)
    \/ \E t \in Targets, dt \in DataTransfers, stopped \in BOOLEAN : onDragEnter(t, dt, stopped)
    \/ \E t \in Targets, dt \in DataTransfers : onDragLeave(t, dt)
    \/ \E dt \in DataTransfers, stopped \in BOOLEAN : onDrop(dt, stopped)
    \/ \E hasFiles \in BOOLEAN, stopped \in BOOLEAN : onChange(hasFiles, stopped)
    \/ onInputElementClick

UserDropCallbacks == {"onDrop", "onDropAccepted", "onDropRejected"}

\* C5 as claimed: with disabled set, the files and the drag state stay as
\* they were created, no drop callback of the user is called, no delivered
\* event opens the file dialog, the root's tabIndex is -1 and isFocused is
\* reported false.
C5_Claimed ==
    /\ [](props.disabled
          => /\ state.acceptedFiles = <<>>
             /\ state.rejectedFiles = <<>>
             /\ state.draggedFiles = <<>>
             /\ ~state.isDragActive
             /\ \A k \in 1..Len(calls) : calls[k].fn \notin UserDropCallbacks
             /\ RootTabIndex = 0 - 1
             /\ ~ReportedIsFocused)
    /\ [][(props.disabled /\ Delivered)
          => /\ ~Called(calls', "input.click")
             /\ openTimers' = openTimers]_vars

----------------------------------------------------------------------------
(* C6 *)

\* an entered target other than t is still inside the root
OthersInside(t) == \E k \in 1..Len(dragTargets) : dragTargets[k] # t /\ Contains(dragTargets[k])

\* C6: a drag-leave of t while another entered target is still inside the
\* root changes no state and does not call onDragLeave; any other drag-leave
\* empties the list of entered targets, sets isDragActive false, empties
\* draggedFiles and calls onDragLeave (when given, for a drag with files).
C6_NestedLeave ==
    [][ \A t \in Targets, dt \in DataTransfers :
            (onDragLeave(t, dt) /\ composeHandler)
            => IF OthersInside(t)
               THEN /\ state' = state
                    /\ ~Called(calls', "onDragLeave")
                    /\ Range(dragTargets') = { el \in Range(dragTargets) : el # t /\ Contains(el) }
               ELSE /\ dragTargets' = <<>>
                    /\ ~state'.isDragActive
                    /\ state'.draggedFiles = <<>>
                    /\ Called(calls', "onDragLeave") <=> (Has("onDragLeave") /\ dt = "files")
      ]_vars

\* a target was left while the drag was active and another target stayed entered
C6_Witness ==
    /\ calls = <<Call("evt.preventDefault", Ev("dragleave"), <<>>)>>
    /\ state.isDragActive
    /\ Len(dragTargets) > 0

----------------------------------------------------------------------------
(* C7 *)

\* C7 as claimed: once no target is entered any more (after a drop, or after
\* the last entered target was left) and no file-list promise is pending,
\* isDragActive is false and draggedFiles is empty.
C7_Claimed ==
    (dragTargets = <<>> /\ \A i \in Slots : pending[i] = NoEvent)
    => (~state.isDragActive /\ state.draggedFiles = <<>>)

----------------------------------------------------------------------------
(* C8 *)

\* C8: a click on the root calls the onClick prop first; if that prevented
\* the default nothing is opened; otherwise on IE/Edge one zero-delay timer is
\* set and nothing is opened within the click, and elsewhere open() runs
\* within the click, after onClick.  Only an IE/Edge click sets the timer, and
\* the timer, in a later step, runs open().
C8_ClickOpens ==
    /\ [](openTimers > 0 => ieOrEdge)
    /\ [][ \A prevented \in BOOLEAN :
               (onClick(prevented) /\ composeHandler)
               => /\ Has("onClick") => (Len(calls') > 0 /\ calls'[1].fn = "onClick")
                  /\ IF prevented
                     THEN /\ ~Called(calls', "input.click")
                          /\ UNCHANGED <<openTimers, isFileDialogActive, inputHasFiles>>
                     ELSE IF ieOrEdge
                     THEN /\ ~Called(calls', "input.click")
                          /\ openTimers' = openTimers + 1
                          /\ UNCHANGED <<isFileDialogActive, inputHasFiles>>
                     ELSE /\ calls'[Len(calls')].fn = "input.click"
                          /\ isFileDialogActive'
                          /\ ~inputHasFiles'
                          /\ UNCHANGED openTimers
         ]_vars
    /\ [][ OpenTimer
           => /\ openTimers' = openTimers - 1
              /\ isFileDialogActive'
              /\ Called(calls', "input.click") <=> InputAttached
         ]_vars

\* an IE/Edge click has set the timer, after calling onClick, and opened nothing
C8_Witness ==
    /\ ieOrEdge
    /\ openTimers = 1
    /\ calls = <<Call("onClick", Ev("click"), <<>>)>>
    /\ ~isFileDialogActive

----------------------------------------------------------------------------
(* C9 *)

\* C9 as claimed: onFileDialogCancel is called only while the dialog is
\* marked active (open() was called, and no selection or drop was handled
\* since) and the input holds no files, and the call marks the dialog inactive.
C9_Claimed ==
    [][ Called(calls', "onFileDialogCancel")
        => /\ isFileDialogActive
           /\ ~inputHasFiles
           /\ ~isFileDialogActive'
      ]_vars

----------------------------------------------------------------------------
(* C10 *)

DocumentListeners == {"document.dragover", "document.drop"}

\* C10 as claimed: with preventDropOnDocument the mounted hook listens to the
\* document's drops; such a drop outside the root has its default prevented
\* and empties the list of entered targets, one inside the root changes
\* nothing; without preventDropOnDocument the document is never listened to;
\* after unmount no listener is left.
C10_Claimed ==
    /\ []((phase = "mounted" /\ props.preventDropOnDocument) => DocumentListeners \subseteq listeners)
    /\ [](~props.preventDropOnDocument
          => /\ listeners \cap DocumentListeners = {}
             /\ \A k \in 1..Len(calls) : calls[k].evt.type # "document.drop")
    /\ [](phase = "unmounted" => listeners = {})
    /\ [][ \A t \in DocTargets :
               onDocumentDrop(t)
               => IF t \in {"root", "child"}
                  THEN /\ calls' = <<>>
                       /\ UNCHANGED <<state, dragTargets, isFileDialogActive, pending>>
                  ELSE /\ calls' = <<Call("evt.preventDefault", Ev("document.drop"), <<>>)>>
                       /\ dragTargets' = <<>>
         ]_vars

\* a drop outside the root was intercepted
C10_Witness ==
    /\ calls = <<Call("evt.preventDefault", Ev("document.drop"), <<>>)>>
    /\ dragTargets = <<>>
    /\ phase = "mounted"

----------------------------------------------------------------------------
(* C11 *)

\* C11 as claimed: the reported isFocused is true exactly when the last focus
\* or blur event whose default the user's handler did not prevent was a focus
\* and the dropzone is not disabled.
C11_Claimed ==
    ReportedIsFocused <=> (lastFocusEvent = "focus" /\ ~props.disabled)

----------------------------------------------------------------------------
(* C12 *)

\* the drag data of an event that carries no files
NoFileData == { dt \in DataTransfers : ~isDragDataWithFiles(dt) }

DragProps == {"onDragStart", "onDragEnter", "onDragOver", "onDragLeave"}

\* C12: a drag event whose data carries no files calls none of the user's
\* onDragStart, onDragEnter, onDragOver and onDragLeave props and leaves no
\* promise behind; a promise of a drag-enter comes only from a drag-enter
\* with files; isDragActive goes from false to true only in the continuation
\* of such a promise, and that continuation sets it for every file list it
\* is given, the empty one included, unless the event's propagation was stopped.
C12_FilesOnly ==
    [][ /\ \A dt \in NoFileData :
              ( \/ onDragStart(dt)
                \/ onDragOver(dt)
                \/ \E t \in Targets : onDragLeave(t, dt)
                \/ \E t \in Targets, stopped \in BOOLEAN : onDragEnter(t, dt, stopped) )
              => /\ \A k \in 1..Len(calls') : calls'[k].fn \notin DragProps
                 /\ pending' = pending
                 /\ state'.isDragActive => state.isDragActive
        /\ \A i \in Slots :
              (pending[i].kind # "enter" /\ pending'[i].kind = "enter")
              => \E t \in Targets, dt \in DataTransfers \ NoFileData, stopped \in BOOLEAN :
                     onDragEnter(t, dt, stopped)
        /\ (~state.isDragActive /\ state'.isDragActive)
              => \E i \in Slots : /\ pending[i].kind = "enter"
                                   /\ ~pending[i].stopped
                                   /\ pending'[i] = NoEvent
        /\ \A i \in Slots : \A draggedFiles \in DraggedLists :
              calls' = <<Then(Evt("dragenter", i, FALSE), draggedFiles)>>
              => /\ state'.isDragActive
                 /\ state'.draggedFiles = draggedFiles ]_vars

\* the promise of a drag-enter with files has resolved to the empty list (Safari)
\* and the dropzone is active
C12_Witness ==
    /\ \E i \in Slots : calls = <<Then(Evt("dragenter", i, FALSE), <<>>)>>
    /\ state.isDragActive
    /\ state.draggedFiles = <<>>

====
